---------------------------- MODULE Spec2Model ----------------------------
(***************************************************************************)
(* Model of simulator.py (class Simulator): the receding-horizon step      *)
(* planner of the linear-inverted-pendulum walking simulation.             *)
(*                                                                         *)
(* Simulator objects hold references to LIP2D and SwingLeg objects, so the *)
(* model keeps two small heaps (lips, legs) and the Simulator fields hold  *)
(* object ids; copy.deepcopy allocates a new object.  One call of run is   *)
(* followed statement group by statement group through pc.                 *)
(*                                                                         *)
(* Numbers are integers.  A time is a rational [n, d] (d >= 1).  The       *)
(* collaborators LIP2D, SwingLeg and step_to_step are not part of          *)
(* simulator.py; their operators below follow their documented contracts   *)
(* with unit gravity, leg length and swing-leg mass (natural frequency 1), *)
(* the hyperbolic functions cut after their second series term and         *)
(* rounded down.                                                           *)
(***************************************************************************)
EXTENDS Integers, Sequences, FiniteSets, TLC

\* ------------------------------------------------------------ bounds
\* Largest number of cycles the Simulators are asked to run, all together.
MaxCycles == 2
\* Largest number of copy_state_to calls.
MaxCopies == 1

\* The Simulator objects of a program run.
Sims == {1, 2}
LipIds == 1 .. (2 * Cardinality(Sims) + 1)
LegIds == 1 .. (2 * Cardinality(Sims) + 1)

\* ------------------------------------------------------------ numbers
Abs(x) == IF x < 0 THEN -x ELSE x

\* Python's int() of a true division a / b, b # 0: the quotient cut toward 0.
TruncDiv(a, b) ==
    IF (a >= 0) = (b > 0) THEN Abs(a) \div Abs(b) ELSE -(Abs(a) \div Abs(b))

RECURSIVE Gcd(_, _)
Gcd(a, b) == IF b = 0 THEN a ELSE Gcd(b, a % b)

\* A rational time n / d, d >= 1, in lowest terms.
Time(n, d) == [n |-> n \div Gcd(Abs(n), d), d |-> d \div Gcd(Abs(n), d)]

TimeEq(s, t) == s.n * t.d = t.n * s.d

TimeLess(s, t) == s.n * t.d < t.n * s.d

\* The half-open index range of a Python sequence of length n, 0-based.
Indices(a) == 0 .. (Len(a) - 1)

\* a[i] of a 0-based Python array held as a TLA+ sequence.
At(a, i) == a[i + 1]

\* ------------------------------------------------------------ numpy
\* np.linspace(start, stop, num) with the default endpoint=True, for num >= 0:
\* num evenly spaced samples, the first start and (for num > 1) the last stop.
Linspace(start, stop, num) ==
    IF num = 1
    THEN << Time(start, 1) >>
    ELSE [k \in 1 .. num |->
            Time(start * (num - 1) + (k - 1) * (stop - start), num - 1)]

\* np.argmin keeps the first of equal minima: the index moves only on a
\* strictly smaller element.
RECURSIVE ArgMinScan(_, _, _)
ArgMinScan(a, k, best) ==
    IF k > Len(a) THEN best
    ELSE ArgMinScan(a, k + 1, IF a[k] < a[best] THEN k ELSE best)

RECURSIVE ArgMinScanLast(_, _, _)
ArgMinScanLast(a, k, best) ==
    IF k > Len(a) THEN best
    ELSE ArgMinScanLast(a, k + 1, IF a[k] <= a[best] THEN k ELSE best)

\* A reduction that moves on equal elements too: the last of equal minima.
ArgMinLast(a) == ArgMinScanLast(a, 2, 1) - 1

\* np.argmin(a) of a non-empty array, 0-based.
ArgMin(a) == ArgMinScan(a, 2, 1) - 1

\* ------------------------------------------------------------ settings
\* The horizon settings a Simulator is constructed with: zero, negative and
\* positive time steps; horizons shorter than the step, equal to it, a
\* multiple of it and no multiple of it.
TStepVals == {-1, 0, 1, 2}
THorizonVals == {-1, 1, 5}

\* The remaining settings, three parameter sets: a walking gait with all
\* three cost terms, one with all gains zero (a constant cost landscape),
\* one that starts at rest over its foot and weighs the swing cost only.
Profiles ==
    { [initial_com_pos_ap |-> 0, initial_com_vel_ap |-> 1, initial_cop_pos_ap |-> 0,
       initial_com_pos_ml |-> 0, initial_com_vel_ml |-> 0, initial_cop_pos_ml |-> 1,
       xcom_offset_ap |-> 0, xcom_offset_ml |-> 1,
       initial_leg_angle_ap |-> 0, initial_leg_angle_ml |-> 0,
       mass_total |-> 1,
       gain_swing_cost_ap |-> 1, gain_swing_cost_ml |-> 1, gain_sts_cost |-> 1],
      [initial_com_pos_ap |-> 0, initial_com_vel_ap |-> 1, initial_cop_pos_ap |-> 0,
       initial_com_pos_ml |-> 0, initial_com_vel_ml |-> 0, initial_cop_pos_ml |-> 1,
       xcom_offset_ap |-> 1, xcom_offset_ml |-> 2,
       initial_leg_angle_ap |-> 1, initial_leg_angle_ml |-> -1,
       mass_total |-> 1,
       gain_swing_cost_ap |-> 0, gain_swing_cost_ml |-> 0, gain_sts_cost |-> 0],
      [initial_com_pos_ap |-> 0, initial_com_vel_ap |-> 0, initial_cop_pos_ap |-> 0,
       initial_com_pos_ml |-> 0, initial_com_vel_ml |-> 1, initial_cop_pos_ml |-> -1,
       xcom_offset_ap |-> 1, xcom_offset_ml |-> 1,
       initial_leg_angle_ap |-> 3, initial_leg_angle_ml |-> -2,
       mass_total |-> 2,
       gain_swing_cost_ap |-> 2, gain_swing_cost_ml |-> 0, gain_sts_cost |-> 0] }

WithTimes(p, ts, th) ==
    [t_step |-> ts, t_horizon |-> th,
     initial_com_pos_ap |-> p.initial_com_pos_ap,
     initial_com_vel_ap |-> p.initial_com_vel_ap,
     initial_cop_pos_ap |-> p.initial_cop_pos_ap,
     initial_com_pos_ml |-> p.initial_com_pos_ml,
     initial_com_vel_ml |-> p.initial_com_vel_ml,
     initial_cop_pos_ml |-> p.initial_cop_pos_ml,
     xcom_offset_ap |-> p.xcom_offset_ap, xcom_offset_ml |-> p.xcom_offset_ml,
     initial_leg_angle_ap |-> p.initial_leg_angle_ap,
     initial_leg_angle_ml |-> p.initial_leg_angle_ml,
     mass_total |-> p.mass_total,
     gain_swing_cost_ap |-> p.gain_swing_cost_ap,
     gain_swing_cost_ml |-> p.gain_swing_cost_ml,
     gain_sts_cost |-> p.gain_sts_cost]

\* The parameter set the horizon settings are varied with.
Walking == CHOOSE p \in Profiles : p.gain_sts_cost = 1

\* The settings objects handed to Simulator(settings): every parameter set
\* with a three-sample horizon, and every horizon with the walking gait.
Settings ==
    { WithTimes(p, 1, 3) : p \in Profiles }
    \cup { WithTimes(Walking, ts, th) : ts \in TStepVals, th \in THorizonVals }

NoSettings == WithTimes(Walking, 0, 0)

\* ------------------------------------------------------------ LIP2D
\* cosh(t) and sinh(t) of a rational time: 1 + t^2/2 and t + t^3/6, rounded
\* down.
CoshT(t) == (2 * t.d * t.d + t.n * t.n) \div (2 * t.d * t.d)

SinhT(t) == (6 * t.n * t.d * t.d + t.n * t.n * t.n) \div (6 * t.d * t.d * t.d)

\* A LIP2D object: the plane state (pos, vel, cop) and the trajectory arrays
\* com_pos, com_vel that simulate leaves on the object.
NewLip(p, v, c) ==
    [live |-> TRUE, pos |-> p, vel |-> v, cop |-> c,
     com_pos |-> << >>, com_vel |-> << >>]

FreeLip ==
    [live |-> FALSE, pos |-> 0, vel |-> 0, cop |-> 0,
     com_pos |-> << >>, com_vel |-> << >>]

\* The plane state of a LIP2D object.
PlaneOf(l) == << l.pos, l.vel, l.cop >>

\* LIP2D.simulate(horizon): the closed-form pendulum solution at every
\* horizon time, the contact point held fixed.
Simulate(l, horizon) ==
    [l EXCEPT
       !.com_pos = [k \in 1 .. Len(horizon) |->
                      l.cop + (l.pos - l.cop) * CoshT(horizon[k])
                            + l.vel * SinhT(horizon[k])],
       !.com_vel = [k \in 1 .. Len(horizon) |->
                      (l.pos - l.cop) * SinhT(horizon[k])
                            + l.vel * CoshT(horizon[k])]]

\* LIP2D.step_location_xcom(offset): extrapolated centre of mass plus offset.
StepLocationXcom(l, offset) ==
    [k \in 1 .. Len(l.com_pos) |-> l.com_pos[k] + l.com_vel[k] + offset]

\* LIP2D.to_leg_angle(positions): the angle from the vertical between the
\* contact point and each position (small angles, unit leg length).
ToLegAngle(l, positions) ==
    [k \in 1 .. Len(positions) |-> positions[k] - l.cop]

\* LIP2D.to_leg_angle(): the same for the simulated trajectory.
ToLegAngleOwn(l) == ToLegAngle(l, l.com_pos)

\* LIP2D.override_state(pos, vel, cop): replaces the three state fields.
OverrideState(l, p, v, c) == [l EXCEPT !.pos = p, !.vel = v, !.cop = c]

\* ------------------------------------------------------------ SwingLeg
NoneAngle == [some |-> FALSE, val |-> 0]

SomeAngle(a) == [some |-> TRUE, val |-> a]

\* A SwingLeg object: its initial_angle attribute, None after construction.
NewLeg == [live |-> TRUE, initial_angle |-> NoneAngle]

FreeLeg == [live |-> FALSE, initial_angle |-> NoneAngle]

\* SwingLeg.compute_swing_cost(t_step, horizon, initial_angle, final_angle):
\* grows with the squared angular displacement, falls with the time left.
ComputeSwingCost(t_step, horizon, initial_angle, final_angle) ==
    [k \in 1 .. Len(horizon) |->
       ((final_angle[k] - initial_angle) * (final_angle[k] - initial_angle)
          * horizon[k].d) \div Abs(horizon[k].n)]

\* ------------------------------------------------------------ step_to_step
\* STS.transition_cost(mass, lip_ap, lip_ml, step_pos_ap, step_pos_ml): the
\* momentum along the new stance leg that touchdown takes away.
TransitionCost(mass, lap, lml, step_pos_ap, step_pos_ml) ==
    [k \in 1 .. Len(step_pos_ap) |->
       mass * Abs(lap.com_vel[k] * (lap.com_pos[k] - step_pos_ap[k])
                  + lml.com_vel[k] * (lml.com_pos[k] - step_pos_ml[k]))]

\* ------------------------------------------------------------ state
VARIABLES
    sims,     \* the Simulator objects
    lips,     \* heap of LIP2D objects, by object id
    legs,     \* heap of SwingLeg objects, by object id
    pc,       \* position of the running call ("idle": no call in progress)
    frame,    \* the local variables of the running call of run
    raised,   \* the exception the latest call raised ("none": none)
    hist,     \* per Simulator, a record of what its calls did
    link,     \* source and target of the latest copy_state_to
    copies,   \* number of copy_state_to calls so far
    leg_keeps_angle  \* whether compute_swing_cost keeps initial_angle

vars == << sims, lips, legs, pc, frame, raised, hist, link, copies,
          leg_keeps_angle >>

NoSim ==
    [built |-> FALSE, settings |-> NoSettings, t_step |-> 0, horizon |-> << >>,
     lip_ap |-> 0, lip_ml |-> 0, is_right_swing |-> TRUE,
     swing_leg_ap |-> 0, swing_leg_ml |-> 0, sim_data |-> << >>]

NoFrame ==
    [self |-> 0, n_step |-> 0, remaining |-> 0, first |-> FALSE,
     initial_leg_angle_ap |-> 0, initial_leg_angle_ml |-> 0,
     step_pos_ap |-> << >>, step_pos_ml |-> << >>,
     total_cost |-> << >>, index |-> 0,
     pre |-> << << 0, 0, 0 >>, << 0, 0, 0 >>, TRUE >>,
     committed |-> << << 0, 0, 0 >>, << 0, 0, 0 >> >>]

NoHist ==
    [made_with |-> NoSettings, cycles |-> 0, asked |-> 0, returned |-> 0, cloned |-> FALSE,
     scans |-> << >>, carried |-> << >>,
     commits_ap |-> 0, commits_ml |-> 0,
     runs_since |-> << >>, idx_since |-> << >>]

NoLink == [src |-> 0, tgt |-> 0]

\* The object ids the Simulator objects of ss refer to.
LipRefs(ss) ==
    UNION { {ss[i].lip_ap, ss[i].lip_ml} : i \in {j \in Sims : ss[j].built} }

LegRefs(ss) ==
    UNION { {ss[i].swing_leg_ap, ss[i].swing_leg_ml} :
              i \in {j \in Sims : ss[j].built} }

\* The lowest id outside used.
Fresh(ids, used) == CHOOSE i \in ids \ used : \A j \in ids \ used : i <= j

\* Objects no Simulator refers to any more are collected.
CollectLips(h, ss) == [i \in LipIds |-> IF i \in LipRefs(ss) THEN h[i] ELSE FreeLip]

CollectLegs(h, ss) == [i \in LegIds |-> IF i \in LegRefs(ss) THEN h[i] ELSE FreeLeg]

\* The plane states and gait phase of Simulator i.
View(i) ==
    << PlaneOf(lips[sims[i].lip_ap]), PlaneOf(lips[sims[i].lip_ml]),
       sims[i].is_right_swing >>

\* The SwingLeg object after compute_swing_cost was given initial_angle:
\* the method may keep the angle in the attribute run reads, or leave the
\* attribute alone; simulator.py itself never assigns it.
AfterSwingCost(leg, initial_angle) ==
    IF leg_keeps_angle
    THEN [leg EXCEPT !.initial_angle = SomeAngle(initial_angle)]
    ELSE leg

\* The cycles asked of all Simulators so far.
RECURSIVE SumAsked(_)
SumAsked(S) ==
    IF S = {} THEN 0
    ELSE LET i == CHOOSE j \in S : TRUE IN hist[i].asked + SumAsked(S \ {i})

Asked == SumAsked(Sims)

Init ==
    /\ sims = [i \in Sims |-> NoSim]
    /\ lips = [i \in LipIds |-> FreeLip]
    /\ legs = [i \in LegIds |-> FreeLeg]
    /\ pc = "idle"
    /\ frame = NoFrame
    /\ raised = "none"
    /\ hist = [i \in Sims |-> NoHist]
    /\ link = NoLink
    /\ copies = 0
    /\ leg_keeps_angle \in BOOLEAN

\* ------------------------------------------------------------ __init__
\* Simulator(settings): the horizon array, two LIP2D and two SwingLeg
\* objects, the right leg swinging first.  A zero t_step fails in the
\* division, a negative sample count in np.linspace; nothing else is checked.
\* The Simulators are constructed in order, before any is run or copied.
Construct(i, s) ==
    /\ pc = "idle"
    /\ ~sims[i].built
    /\ \A j \in Sims : j < i => sims[j].built
    /\ Asked = 0 /\ copies = 0
    /\ IF s.t_step = 0
       THEN /\ raised' = "ZeroDivisionError"
            /\ UNCHANGED << sims, lips, legs, hist >>
       ELSE IF TruncDiv(s.t_horizon, s.t_step) < 0
       THEN /\ raised' = "ValueError"
            /\ UNCHANGED << sims, lips, legs, hist >>
       ELSE LET a == Fresh(LipIds, LipRefs(sims))
                b == Fresh(LipIds, LipRefs(sims) \cup {a})
                c == Fresh(LegIds, LegRefs(sims))
                d == Fresh(LegIds, LegRefs(sims) \cup {c})
            IN  /\ sims' = [sims EXCEPT ![i] =
                     [built |-> TRUE, settings |-> s, t_step |-> s.t_step,
                      horizon |-> Linspace(s.t_step, s.t_horizon,
                                           TruncDiv(s.t_horizon, s.t_step)),
                      lip_ap |-> a, lip_ml |-> b, is_right_swing |-> TRUE,
                      swing_leg_ap |-> c, swing_leg_ml |-> d,
                      sim_data |-> << >>]]
                /\ lips' = [lips EXCEPT
                     ![a] = NewLip(s.initial_com_pos_ap, s.initial_com_vel_ap,
                                   s.initial_cop_pos_ap),
                     ![b] = NewLip(s.initial_com_pos_ml, s.initial_com_vel_ml,
                                   s.initial_cop_pos_ml)]
                /\ legs' = [legs EXCEPT ![c] = NewLeg, ![d] = NewLeg]
                /\ raised' = "none"
                /\ hist' = [hist EXCEPT ![i].made_with = s]
    /\ UNCHANGED << pc, frame, link, copies, leg_keeps_angle >>

\* ------------------------------------------------------------ run
\* The initial swing leg angle a call of run starts from: the attribute of
\* the SwingLeg object, or the settings' value when that is None.
ResolveAngle(leg, default) ==
    IF leg.initial_angle.some THEN leg.initial_angle.val ELSE default

\* run(n_step), up to the loop: the initial leg angles become locals.
Run(i, n) ==
    /\ pc = "idle"
    /\ sims[i].built
    /\ Asked + n <= MaxCycles
    /\ frame' = [NoFrame EXCEPT
         !.self = i, !.n_step = n, !.remaining = n, !.first = TRUE,
         !.initial_leg_angle_ap =
            ResolveAngle(legs[sims[i].swing_leg_ap],
                         sims[i].settings.initial_leg_angle_ap),
         !.initial_leg_angle_ml =
            ResolveAngle(legs[sims[i].swing_leg_ml],
                         sims[i].settings.initial_leg_angle_ml)]
    /\ hist' = [hist EXCEPT ![i].asked = @ + n,
                            ![i].runs_since = Append(@, n)]
    /\ raised' = "none"
    /\ pc' = "scan"
    /\ UNCHANGED << sims, lips, legs, link, copies, leg_keeps_angle >>

\* A sign that ignores the swinging leg.
OffsetMultiplierFixed(is_right_swing) == 1

\* The sign of the medial-lateral footstep offset.
OffsetMultiplierMl(is_right_swing) == IF is_right_swing THEN 1 ELSE -1

\* The cost landscape of the horizon: the gain-weighted sum of the three
\* cost arrays.
TotalCost(settings, swing_cost_ap, swing_cost_ml, sts_cost) ==
    [k \in 1 .. Len(sts_cost) |->
       settings.gain_swing_cost_ap * swing_cost_ap[k]
       + settings.gain_swing_cost_ml * swing_cost_ml[k]
       + settings.gain_sts_cost * sts_cost[k]]

\* What the horizon scan of Simulator s computes from the two LIP2D objects
\* and the initial leg angles ia_ap, ia_ml.
Scanned(s, l_ap, l_ml, ia_ap, ia_ml) ==
    LET lap == Simulate(l_ap, s.horizon)
        lml == Simulate(l_ml, s.horizon)
        offset_ap == s.settings.xcom_offset_ap
        offset_ml == s.settings.xcom_offset_ml
                        * OffsetMultiplierMl(s.is_right_swing)
        step_pos_ap == StepLocationXcom(lap, offset_ap)
        step_pos_ml == StepLocationXcom(lml, offset_ml)
        final_leg_angle_ap == ToLegAngle(lap, step_pos_ap)
        final_leg_angle_ml == ToLegAngle(lml, step_pos_ml)
        swing_cost_ap == ComputeSwingCost(s.t_step, s.horizon, ia_ap,
                                          final_leg_angle_ap)
        swing_cost_ml == ComputeSwingCost(s.t_step, s.horizon, ia_ml,
                                          final_leg_angle_ml)
        sts_cost == TransitionCost(s.settings.mass_total, lap, lml,
                                   step_pos_ap, step_pos_ml)
    IN  [lip_ap |-> lap, lip_ml |-> lml,
         offset_ap |-> offset_ap, offset_ml |-> offset_ml,
         step_pos_ap |-> step_pos_ap, step_pos_ml |-> step_pos_ml,
         total_cost |-> TotalCost(s.settings, swing_cost_ap, swing_cost_ml,
                                  sts_cost)]

\* The effect of the horizon scan on everything but the gait phase.
ScanEffects ==
    LET i == frame.self
        s == sims[i]
        r == Scanned(s, lips[s.lip_ap], lips[s.lip_ml],
                     frame.initial_leg_angle_ap, frame.initial_leg_angle_ml)
    IN  /\ lips' = [lips EXCEPT ![s.lip_ap] = r.lip_ap, ![s.lip_ml] = r.lip_ml]
        /\ legs' = [legs EXCEPT
             ![s.swing_leg_ap] = AfterSwingCost(@, frame.initial_leg_angle_ap),
             ![s.swing_leg_ml] = AfterSwingCost(@, frame.initial_leg_angle_ml)]
        /\ frame' = [frame EXCEPT
             !.step_pos_ap = r.step_pos_ap, !.step_pos_ml = r.step_pos_ml,
             !.total_cost = r.total_cost,
             !.pre = View(i)]
        /\ hist' = [hist EXCEPT ![i].scans = Append(@,
             [right |-> s.is_right_swing,
              offset_ap |-> r.offset_ap, offset_ml |-> r.offset_ml,
              angle_ap |-> frame.initial_leg_angle_ap,
              angle_ml |-> frame.initial_leg_angle_ml])]
        /\ pc' = "select"
        /\ UNCHANGED << raised, link, copies, leg_keeps_angle >>

\* A scan with the change of leg moved to the top of the loop body.
HorizonScanChangingLeg ==
    /\ pc = "scan"
    /\ frame.remaining > 0
    /\ ScanEffects
    /\ sims' = [sims EXCEPT ![frame.self].is_right_swing = ~@]

\* The horizon scan: both pendula simulated over the horizon, the candidate
\* foot positions and leg angles, the three costs and their weighted sum.
HorizonScan ==
    /\ pc = "scan"
    /\ frame.remaining > 0
    /\ ScanEffects
    /\ UNCHANGED sims

\* index = np.argmin(total_cost); an empty array raises ValueError, which
\* ends the call.
Select ==
    /\ pc = "select"
    /\ IF Len(frame.total_cost) = 0
       THEN /\ pc' = "idle"
            /\ raised' = "ValueError"
            /\ frame' = [NoFrame EXCEPT !.self = frame.self, !.pre = frame.pre]
       ELSE /\ pc' = "sample"
            /\ frame' = [frame EXCEPT !.index = ArgMin(frame.total_cost)]
            /\ UNCHANGED raised
    /\ UNCHANGED << sims, lips, legs, hist, link, copies, leg_keeps_angle >>

\* The data sample, and the initial swing leg angles of the next step.
TakeSample ==
    LET i == frame.self
        s == sims[i]
        next_ap == At(ToLegAngleOwn(lips[s.lip_ap]), frame.index)
        next_ml == At(ToLegAngleOwn(lips[s.lip_ml]), frame.index)
    IN  /\ pc = "sample"
        /\ sims' = [sims EXCEPT ![i].sim_data = Append(@,
             [time |-> At(s.horizon, frame.index), index |-> frame.index,
              step_pos_ap |-> At(frame.step_pos_ap, frame.index),
              step_pos_ml |-> At(frame.step_pos_ml, frame.index)])]
        /\ frame' = [frame EXCEPT !.initial_leg_angle_ap = next_ap,
                                  !.initial_leg_angle_ml = next_ml]
        /\ hist' = [hist EXCEPT
             ![i].carried = Append(@, [angle_ap |-> next_ap,
                                       angle_ml |-> next_ml]),
             ![i].idx_since = Append(@, frame.index)]
        /\ pc' = "override_ap"
        /\ UNCHANGED << lips, legs, raised, link, copies, leg_keeps_angle >>

\* A commit of the anterior-posterior plane to the medial-lateral footstep.
OverrideApToMlStep ==
    LET i == frame.self
        l == lips[sims[i].lip_ap]
    IN  /\ pc = "override_ap"
        /\ lips' = [lips EXCEPT ![sims[i].lip_ap] =
             OverrideState(l, At(l.com_pos, frame.index),
                           At(l.com_vel, frame.index),
                           At(frame.step_pos_ml, frame.index))]
        /\ hist' = [hist EXCEPT ![i].commits_ap = @ + 1]
        /\ pc' = "override_ml"
        /\ UNCHANGED << sims, legs, frame, raised, link, copies, leg_keeps_angle >>

\* lip_ap.override_state(com_pos[index], com_vel[index], step_pos_ap[index])
OverrideAp ==
    LET i == frame.self
        l == lips[sims[i].lip_ap]
    IN  /\ pc = "override_ap"
        /\ lips' = [lips EXCEPT ![sims[i].lip_ap] =
             OverrideState(l, At(l.com_pos, frame.index),
                           At(l.com_vel, frame.index),
                           At(frame.step_pos_ap, frame.index))]
        /\ hist' = [hist EXCEPT ![i].commits_ap = @ + 1]
        /\ pc' = "override_ml"
        /\ UNCHANGED << sims, legs, frame, raised, link, copies, leg_keeps_angle >>

\* lip_ml.override_state(com_pos[index], com_vel[index], step_pos_ml[index])
OverrideMl ==
    LET i == frame.self
        l == lips[sims[i].lip_ml]
    IN  /\ pc = "override_ml"
        /\ lips' = [lips EXCEPT ![sims[i].lip_ml] =
             OverrideState(l, At(l.com_pos, frame.index),
                           At(l.com_vel, frame.index),
                           At(frame.step_pos_ml, frame.index))]
        /\ hist' = [hist EXCEPT ![i].commits_ml = @ + 1]
        /\ pc' = "change_leg"
        /\ UNCHANGED << sims, legs, frame, raised, link, copies, leg_keeps_angle >>

\* A change of leg that always ends on the right leg.
NextLegStuck(is_right_swing) == TRUE

\* The gait phase after a step: the other leg swings.
NextLeg(is_right_swing) == ~is_right_swing

\* is_right_swing = not is_right_swing, the last statement of the loop body.
ChangeLeg ==
    LET i == frame.self
    IN  /\ pc = "change_leg"
        /\ sims' = [sims EXCEPT
             ![i].is_right_swing = NextLeg(sims[i].is_right_swing)]
        /\ hist' = [hist EXCEPT ![i].cycles = @ + 1]
        /\ frame' = [frame EXCEPT
             !.remaining = @ - 1, !.first = FALSE,
             !.committed = << PlaneOf(lips[sims[i].lip_ap]),
                              PlaneOf(lips[sims[i].lip_ml]) >>]
        /\ pc' = "scan"
        /\ UNCHANGED << lips, legs, raised, link, copies, leg_keeps_angle >>

\* The loop is done: run returns.
Return ==
    /\ pc = "scan"
    /\ frame.remaining = 0
    /\ hist' = [hist EXCEPT ![frame.self].returned = @ + frame.n_step]
    /\ frame' = NoFrame
    /\ pc' = "idle"
    /\ UNCHANGED << sims, lips, legs, raised, link, copies, leg_keeps_angle >>

\* ------------------------------------------------------------ copy_state_to
\* The ids all fields but field fld of Simulator t refer to.
LipRefsBut(ss, t, fld) ==
    UNION { ({ss[i].lip_ap} \ (IF i = t /\ fld = "ap" THEN {ss[i].lip_ap} ELSE {}))
            \cup
            ({ss[i].lip_ml} \ (IF i = t /\ fld = "ml" THEN {ss[i].lip_ml} ELSE {}))
            : i \in {j \in Sims : ss[j].built} }

LegRefsBut(ss, t, fld) ==
    UNION { ({ss[i].swing_leg_ap}
               \ (IF i = t /\ fld = "ap" THEN {ss[i].swing_leg_ap} ELSE {}))
            \cup
            ({ss[i].swing_leg_ml}
               \ (IF i = t /\ fld = "ml" THEN {ss[i].swing_leg_ml} ELSE {}))
            : i \in {j \in Sims : ss[j].built} }

\* An assignment of the reference itself: no new object.
ShallowCopy(ids, ref, old, others) == ref

\* The id of the object copy.deepcopy creates from object ref, for a field
\* that held old: an object of its own.  The assignment frees the object
\* old when no other field (others) refers to it, and the copy may then take
\* its id.
Deepcopy(ids, ref, old, others) ==
    IF old \notin others THEN old ELSE Fresh(ids, others)

\* A copy that leaves the gait phase of the target as it was.
CopiedStateNoPhase(s, t, a, b, c, d) ==
    [t EXCEPT !.lip_ap = a, !.lip_ml = b,
              !.swing_leg_ap = c, !.swing_leg_ml = d]

\* The target Simulator t after the five assignments from source s: the
\* new LIP2D objects a, b, the gait phase, the new SwingLeg objects c, d.
\* settings, t_step, horizon and sim_data of the target are not assigned.
CopiedState(s, t, a, b, c, d) ==
    [t EXCEPT !.lip_ap = a, !.lip_ml = b,
              !.is_right_swing = s.is_right_swing,
              !.swing_leg_ap = c, !.swing_leg_ml = d]

\* src.copy_state_to(tgt)
CopyStateTo(src, tgt) ==
    /\ pc = "idle"
    /\ src # tgt
    /\ copies < MaxCopies
    /\ sims[src].built
    /\ sims[tgt].built
    /\ LET s == sims[src]
           a == Deepcopy(LipIds, s.lip_ap, sims[tgt].lip_ap,
                         LipRefsBut(sims, tgt, "ap"))
           sims1 == [sims EXCEPT ![tgt].lip_ap = a]
           lips1 == [lips EXCEPT ![a] = lips[s.lip_ap]]
           b == Deepcopy(LipIds, s.lip_ml, sims[tgt].lip_ml,
                         LipRefsBut(sims1, tgt, "ml"))
           lips2 == [lips1 EXCEPT ![b] = lips1[s.lip_ml]]
           c == Deepcopy(LegIds, s.swing_leg_ap, sims[tgt].swing_leg_ap,
                         LegRefsBut(sims, tgt, "ap"))
           sims2 == [sims EXCEPT ![tgt].swing_leg_ap = c]
           legs1 == [legs EXCEPT ![c] = legs[s.swing_leg_ap]]
           d == Deepcopy(LegIds, s.swing_leg_ml, sims[tgt].swing_leg_ml,
                         LegRefsBut(sims2, tgt, "ml"))
           legs2 == [legs1 EXCEPT ![d] = legs1[s.swing_leg_ml]]
           after == [sims EXCEPT ![tgt] = CopiedState(s, sims[tgt], a, b, c, d)]
       IN  /\ sims' = after
           /\ lips' = CollectLips(lips2, after)
           /\ legs' = CollectLegs(legs2, after)
    /\ hist' = [i \in Sims |->
         IF i = tgt
         THEN [hist[i] EXCEPT !.cloned = TRUE, !.runs_since = << >>,
                              !.idx_since = << >>]
         ELSE IF i = src
         THEN [hist[i] EXCEPT !.runs_since = << >>, !.idx_since = << >>]
         ELSE hist[i]]
    /\ link' = [src |-> src, tgt |-> tgt]
    /\ raised' = "none"
    /\ copies' = copies + 1
    /\ UNCHANGED << pc, frame, leg_keeps_angle >>

\* ------------------------------------------------------------ specification
Next ==
    \/ \E i \in Sims, s \in Settings : Construct(i, s)
    \/ \E i \in Sims, n \in 1 .. MaxCycles : Run(i, n)
    \/ HorizonScan
    \/ Select
    \/ TakeSample
    \/ OverrideAp
    \/ OverrideMl
    \/ ChangeLeg
    \/ Return
    \/ \E src \in Sims, tgt \in Sims : CopyStateTo(src, tgt)

Spec == Init /\ [][Next]_vars

\* ------------------------------------------------------------ properties
Built == {i \in Sims : sims[i].built}

\* The statements of the loop body after the scan.
AfterScan == {"select", "sample", "override_ap", "override_ml", "change_leg"}

AfterSelect == {"sample", "override_ap", "override_ml", "change_leg"}

\* C1: a new Simulator has the right leg swinging; the gait phase flips once
\* per completed cycle and at no other time, so that after run calls that
\* all returned, on a Simulator no copy was made into, the right leg swings
\* iff the number of steps asked for is even.
ThmC1_PhaseParity ==
    \A i \in Built :
       ~hist[i].cloned =>
          /\ sims[i].is_right_swing = (hist[i].cycles % 2 = 0)
          /\ (pc = "idle" /\ hist[i].returned = hist[i].asked)
                => sims[i].is_right_swing = (hist[i].returned % 2 = 0)

\* C1 witness: two calls run(1), run(1) on a Simulator both returned.
WitC1_TwoRuns ==
    \E i \in Built :
       /\ pc = "idle" /\ ~hist[i].cloned
       /\ hist[i].runs_since = << 1, 1 >>
       /\ hist[i].returned = 2
       /\ sims[i].is_right_swing

\* C2: the selected index is an index of the horizon, its total cost is the
\* least, every earlier index has a strictly larger total cost, and a
\* constant cost landscape selects index 0.
ThmC2_Selection ==
    pc \in AfterSelect =>
       LET t == frame.total_cost
           i == frame.index
       IN  /\ i \in Indices(t)
           /\ \A j \in Indices(t) : At(t, i) <= At(t, j)
           /\ \A j \in Indices(t) : j < i => At(t, j) > At(t, i)
           /\ (\A j \in Indices(t) : At(t, j) = At(t, 0)) => i = 0

\* C2 witness: a selection among equal minima that are not at the start of
\* the horizon.
WitC2_TieAfterStart ==
    /\ pc = "sample"
    /\ frame.index > 0
    /\ \E j \in Indices(frame.total_cost) :
          j > frame.index
          /\ At(frame.total_cost, j) = At(frame.total_cost, frame.index)

\* No LIP2D or SwingLeg object is referred to by two fields.
NoAlias ==
    /\ \A i \in Built : sims[i].lip_ap # sims[i].lip_ml
                        /\ sims[i].swing_leg_ap # sims[i].swing_leg_ml
    /\ \A i, j \in Built :
          i # j =>
             /\ {sims[i].lip_ap, sims[i].lip_ml}
                   \cap {sims[j].lip_ap, sims[j].lip_ml} = {}
             /\ {sims[i].swing_leg_ap, sims[i].swing_leg_ml}
                   \cap {sims[j].swing_leg_ap, sims[j].swing_leg_ml} = {}

\* A step of a call of run changes the plane states and the gait phase of
\* no Simulator but the one it runs on.
RunFrame ==
    (pc # "idle" \/ pc' # "idle") =>
       \A j \in Built :
          j # (IF pc = "idle" THEN frame'.self ELSE frame.self)
             => /\ PlaneOf(lips'[sims'[j].lip_ap]) = PlaneOf(lips[sims[j].lip_ap])
                /\ PlaneOf(lips'[sims'[j].lip_ml]) = PlaneOf(lips[sims[j].lip_ml])
                /\ sims'[j].is_right_swing = sims[j].is_right_swing

\* C3: after copy_state_to no mutable object is shared between the two
\* Simulators, and run calls on either leave the plane states and the gait
\* phase of the other unchanged.
ThmC3_CloneIndependence == [](NoAlias) /\ [][RunFrame]_vars

\* C3 witness: after a copy the source has run, and the target, not run
\* since, no longer equals it.
WitC3_SourceRanOn ==
    /\ pc = "idle"
    /\ link # NoLink
    /\ hist[link.src].idx_since # << >>
    /\ hist[link.tgt].runs_since = << >>
    /\ View(link.src) # View(link.tgt)

\* The initial leg angles the next call of run on Simulator i starts from.
NextAngles(i) ==
    << ResolveAngle(legs[sims[i].swing_leg_ap],
                    sims[i].settings.initial_leg_angle_ap),
       ResolveAngle(legs[sims[i].swing_leg_ml],
                    sims[i].settings.initial_leg_angle_ml) >>

\* No call has been made since the latest copy_state_to.
JustCopied ==
    /\ pc = "idle"
    /\ link # NoLink
    /\ hist[link.src].runs_since = << >>
    /\ hist[link.tgt].runs_since = << >>

CexC5_CarriedAngle ==
    \A i \in Built :
       ~hist[i].cloned =>
          \A k \in 1 .. Len(hist[i].scans) :
             /\ k = 1 =>
                  /\ hist[i].scans[k].angle_ap
                        = sims[i].settings.initial_leg_angle_ap
                  /\ hist[i].scans[k].angle_ml
                        = sims[i].settings.initial_leg_angle_ml
             /\ (k > 1 /\ k - 1 <= Len(hist[i].carried)) =>
                  /\ hist[i].scans[k].angle_ap = hist[i].carried[k - 1].angle_ap
                  /\ hist[i].scans[k].angle_ml = hist[i].carried[k - 1].angle_ml

\* C6 as claimed: for t_step > 0 and t_horizon >= t_step the horizon has
\* floor(t_horizon / t_step) elements, the k-th being k * t_step, none
\* beyond t_horizon.
CexC6_HorizonGrid ==
    \A i \in Built :
       LET ts == sims[i].settings.t_step
           th == sims[i].settings.t_horizon
           h == sims[i].horizon
       IN  (ts > 0 /\ th >= ts) =>
              /\ Len(h) = th \div ts
              /\ \A k \in 1 .. Len(h) :
                    /\ TimeEq(h[k], Time(k * ts, 1))
                    /\ ~TimeLess(Time(th, 1), h[k])
              /\ \A k \in 1 .. (Len(h) - 1) : TimeLess(h[k], h[k + 1])

\* C7 as claimed: a Simulator exists only for t_step > 0, t_horizon > 0 and
\* at least one horizon sample, and run never selects among no candidates.
CexC7_ConstructionRejects ==
    /\ \A i \in Built :
          /\ sims[i].settings.t_step > 0
          /\ sims[i].settings.t_horizon > 0
          /\ Len(sims[i].horizon) > 0
    /\ pc = "select" => Len(frame.total_cost) > 0

\* C8: when a cycle of run fails, both plane states and the gait phase are
\* those the cycle began with; and whenever no call is in progress every
\* Simulator has committed both planes and changed leg equally often.
ThmC8_FailureAtomicity ==
    /\ (pc = "idle" /\ raised = "ValueError" /\ frame.self # 0)
          => View(frame.self) = frame.pre
    /\ pc = "idle" =>
          \A i \in Built : /\ hist[i].commits_ap = hist[i].cycles
                           /\ hist[i].commits_ml = hist[i].cycles

\* C8 witness: a call of run has failed in its selection.
WitC8_RunFailed ==
    /\ pc = "idle"
    /\ raised = "ValueError"
    /\ frame.self # 0
    /\ Len(sims[frame.self].horizon) = 0

\* The trajectory a LIP2D object with plane state st has over horizon h.
TrajectoryOf(st, h) == Simulate(NewLip(st[1], st[2], st[3]), h)

\* C9: between scan and commit the plane states are those the cycle began
\* with; the arrays are computed from them; each commit writes position,
\* velocity and candidate footstep at the one selected index; and a later
\* cycle of a call begins with what the cycle before committed.
ThmC9_CommitSequencing ==
    pc \in AfterScan =>
       LET s == sims[frame.self]
           ap == lips[s.lip_ap]
           ml == lips[s.lip_ml]
           x == frame.index
       IN  /\ ap.com_pos = TrajectoryOf(frame.pre[1], s.horizon).com_pos
           /\ ap.com_vel = TrajectoryOf(frame.pre[1], s.horizon).com_vel
           /\ ml.com_pos = TrajectoryOf(frame.pre[2], s.horizon).com_pos
           /\ ml.com_vel = TrajectoryOf(frame.pre[2], s.horizon).com_vel
           /\ pc \in {"select", "sample", "override_ap"}
                 => PlaneOf(ap) = frame.pre[1]
           /\ pc \in {"select", "sample", "override_ap", "override_ml"}
                 => PlaneOf(ml) = frame.pre[2]
           /\ pc \in {"override_ml", "change_leg"}
                 => PlaneOf(ap) = << At(ap.com_pos, x), At(ap.com_vel, x),
                                     At(frame.step_pos_ap, x) >>
           /\ pc = "change_leg"
                 => PlaneOf(ml) = << At(ml.com_pos, x), At(ml.com_vel, x),
                                     At(frame.step_pos_ml, x) >>
           /\ s.is_right_swing = frame.pre[3]
           /\ ~frame.first
                 => << frame.pre[1], frame.pre[2] >> = frame.committed

\* C9 witness: the second cycle of a call has committed both planes, at an
\* index where the state moved.
WitC9_SecondCommit ==
    /\ pc = "change_leg"
    /\ ~frame.first
    /\ PlaneOf(lips[sims[frame.self].lip_ap]) # frame.pre[1]
    /\ PlaneOf(lips[sims[frame.self].lip_ml]) # frame.pre[2]

=============================================================================
